---- MODULE Spec2Model ----
(***************************************************************************)
(* rag-cli: the persisted vector-store collections (one directory per      *)
(* collection under config.INDEX_DIR), the commands that write and delete  *)
(* them (index, clear), the command that reads them (list), the two query  *)
(* entry points of rag/chain.py (query, run_silent) and main.compare.       *)
(*                                                                         *)
(* The program is single-threaded: one command runs at a time.  pc is the  *)
(* position of the running command ("idle" between commands); a command    *)
(* whose statements a keyboard interrupt can separate is modelled one      *)
(* statement per step.  The embedding service, the language model and the  *)
(* FAISS library are external: their outcome (success, raise) is chosen    *)
(* nondeterministically.                                                   *)
(***************************************************************************)
EXTENDS Naturals, Sequences, FiniteSets, TLC

VARIABLES rootExists, cols, LLM_MODEL, pc, op, loc, pre, result

vars == <<rootExists, cols, LLM_MODEL, pc, op, loc, pre, result>>

\* ---------------------------------------------------------------- bounds
\* Largest number of vectors the indexes under INDEX_DIR hold together.
MaxTotal == 3
\* Largest number of fragments the language model streams for one answer.
MaxFrags == 2

\* ---------------------------------------------------------------- config
None == "None"
COLLECTION == "default"
DirNames == {"default", "notes"}
Models == {"llama3.2", "mistral"}

\* ---------------------------------------------------------------- input files
FilePaths == {"docs/a.txt", "docs/b.pdf", "docs/c.md", "docs/d.bin", "docs/e.txt"}

\* Lexicographic order of the strings the model sorts (paths and basenames).
Rank(s) ==
    CASE s = "docs/a.txt" -> 1 [] s = "a.txt" -> 1
      [] s = "docs/b.pdf" -> 2 [] s = "b.pdf" -> 2
      [] s = "docs/c.md"  -> 3 [] s = "c.md"  -> 3
      [] s = "docs/d.bin" -> 4 [] s = "d.bin" -> 4
      [] s = "docs/e.txt" -> 5 [] s = "e.txt" -> 5
      [] s = "default"    -> 6
      [] s = "notes"      -> 7

Suffix(f) ==
    CASE f = "docs/a.txt" -> ".txt"
      [] f = "docs/b.pdf" -> ".pdf"
      [] f = "docs/c.md"  -> ".md"
      [] f = "docs/d.bin" -> ".bin"
      [] f = "docs/e.txt" -> ".txt"

\* Path(source).name
PathName(f) ==
    CASE f = "docs/a.txt" -> "a.txt"
      [] f = "docs/b.pdf" -> "b.pdf"
      [] f = "docs/c.md"  -> "c.md"
      [] f = "docs/d.bin" -> "d.bin"
      [] f = "docs/e.txt" -> "e.txt"

LOADERS == {".pdf", ".txt", ".md", ".docx"}

\* What loader.load() does on each file of the modelled input tree: a.txt is
\* one segment of text, b.pdf has two pages (one segment each), c.md is
\* malformed (the loader raises), e.txt is an empty file (one segment with
\* no text).  parts is the number of chunks the segment's text splits into.
LoaderLoad(f) ==
    CASE f = "docs/a.txt" -> [raises |-> FALSE,
                              docs |-> <<[source |-> f, page |-> 0, parts |-> 1]>>]
      [] f = "docs/b.pdf" -> [raises |-> FALSE,
                              docs |-> <<[source |-> f, page |-> 1, parts |-> 1],
                                         [source |-> f, page |-> 2, parts |-> 1]>>]
      [] f = "docs/c.md"  -> [raises |-> TRUE, docs |-> <<>>]
      [] f = "docs/e.txt" -> [raises |-> FALSE,
                              docs |-> <<[source |-> f, page |-> 0, parts |-> 0]>>]
      [] OTHER            -> [raises |-> TRUE, docs |-> <<>>]

\* A path given on the command line: missing, one file, or a directory.
\* The directories of the modelled input tree: an empty one, one holding only
\* an unsupported file, one whose only file fails to load, and mixed ones.
NoPath == [kind |-> "missing", files |-> {}]
Directories ==
    {{}, {"docs/d.bin"}, {"docs/c.md"}, {"docs/e.txt"},
     {"docs/a.txt", "docs/c.md", "docs/d.bin"},
     {"docs/a.txt", "docs/b.pdf", "docs/e.txt"}}
Paths ==
    {NoPath}
      \cup {[kind |-> "file", files |-> {f}] : f \in FilePaths}
      \cup {[kind |-> "dir", files |-> S] : S \in Directories}

\* ---------------------------------------------------------------- helpers
RECURSIVE SortedSeq(_)
\* sorted(S) for a set of strings
SortedSeq(S) ==
    IF S = {} THEN <<>>
    ELSE LET m == CHOOSE x \in S : \A y \in S : Rank(x) <= Rank(y)
         IN <<m>> \o SortedSeq(S \ {m})

Range(s) == {s[i] : i \in 1..Len(s)}

RECURSIVE Flatten(_)
Flatten(ss) == IF ss = <<>> THEN <<>> ELSE Head(ss) \o Flatten(Tail(ss))

\* ---------------------------------------------------------------- indexer.py
load_file(f) ==
    IF Suffix(f) \notin LOADERS THEN <<>>
    ELSE IF LoaderLoad(f).raises THEN <<>>
    ELSE LoaderLoad(f).docs

load_documents(path) ==
    IF path.kind = "file" THEN load_file(CHOOSE f \in path.files : TRUE)
    ELSE LET files == SortedSeq({p \in path.files : Suffix(p) \in LOADERS})
         IN IF files = <<>> THEN <<>>
            ELSE Flatten([i \in 1..Len(files) |-> load_file(files[i])])

\* RecursiveCharacterTextSplitter.split_documents: every segment yields its
\* chunks in order, each carrying the segment's metadata and a start index.
split_documents(docs) ==
    Flatten([i \in 1..Len(docs) |->
        [k \in 1..docs[i].parts |->
            [source |-> docs[i].source, page |-> docs[i].page, start_index |-> k - 1]]])

\* ---------------------------------------------------------------- state
\* One subdirectory of config.INDEX_DIR: whether it exists, the index file
\* pair save_local writes (the stored chunks, in insertion order) and
\* meta.json.
NoIndex == [has |-> FALSE, docs |-> <<>>]
NoMeta == [has |-> FALSE, chunks |-> 0, sources |-> <<>>]
AbsentDir == [exists |-> FALSE, index |-> NoIndex, meta |-> NoMeta]

NoResult ==
    [kind |-> "none", ret |-> 0, text |-> <<>>, exc |-> "", code |-> 0, listing |-> <<>>]
Returned(n) == [NoResult EXCEPT !.kind = "return", !.ret = n]
ReturnedText(t) == [NoResult EXCEPT !.kind = "return", !.text = t]
Raised(e) == [NoResult EXCEPT !.kind = "raise", !.exc = e]
Exited(n) == [NoResult EXCEPT !.kind = "exit", !.code = n]

FreshLoc ==
    [path |-> NoPath, collection |-> None, docs |-> <<>>, chunks |-> <<>>,
     vectorstore |-> <<>>, original_model |-> None, model |-> None,
     full_response |-> <<>>, stdout |-> <<>>, show_sources |-> FALSE,
     asked |-> FALSE, confirmed |-> FALSE, interrupted |-> "no",
     mode |-> "none", llm |-> None, pending |-> NoResult,
     questions |-> <<>>, model_list |-> <<>>, qi |-> 1, mi |-> 1,
     elapsed |-> 0, results |-> <<>>]

\* The persisted state and process-wide configuration as a command starts.
Snapshot == [rootExists |-> rootExists, cols |-> cols, LLM_MODEL |-> LLM_MODEL]

Init ==
    /\ rootExists = FALSE
    /\ cols = [d \in DirNames |-> AbsentDir]
    /\ LLM_MODEL = "llama3.2"
    /\ pc = "idle"
    /\ op = "none"
    /\ loc = FreshLoc
    /\ pre = [rootExists |-> FALSE, cols |-> [d \in DirNames |-> AbsentDir],
              LLM_MODEL |-> LLM_MODEL]
    /\ result = NoResult

\* Number of vectors stored under INDEX_DIR (the quantity MaxTotal bounds).
StoredTotal == Len(cols["default"].index.docs) + Len(cols["notes"].index.docs)

\* collection_dir.exists()
DirExists(c) == rootExists /\ cols[c].exists

\* ---------------------------------------------------------------- index
IndexPcs == {"ix_load", "ix_split", "ix_embed", "ix_mkdir", "ix_save", "ix_meta"}

\* main.index, and indexer.index up to the call of load_documents
index_start(path, collection) ==
    /\ pc = "idle"
    /\ op' = "index"
    /\ pre' = Snapshot
    /\ loc' = [FreshLoc EXCEPT !.path = path,
                               !.collection = IF collection = None THEN COLLECTION
                                              ELSE collection]
    /\ IF path.kind = "missing"
       THEN pc' = "idle" /\ result' = Exited(1)
       ELSE /\ StoredTotal + Len(split_documents(load_documents(path))) <= MaxTotal
            /\ pc' = "ix_load"
            /\ result' = NoResult
    /\ UNCHANGED <<rootExists, cols, LLM_MODEL>>

\* Mutation of no_documents: the early return on an empty load is missing.
no_documents_unchecked(docs) == FALSE

\* `if not docs`
no_documents(docs) == docs = <<>>

index_load ==
    /\ pc = "ix_load"
    /\ loc' = [loc EXCEPT !.docs = load_documents(loc.path), !.path = NoPath]
    /\ IF no_documents(loc'.docs)
       THEN pc' = "idle" /\ result' = Returned(0)
       ELSE pc' = "ix_split" /\ UNCHANGED result
    /\ UNCHANGED <<rootExists, cols, LLM_MODEL, op, pre>>

index_split ==
    /\ pc = "ix_split"
    /\ loc' = [loc EXCEPT !.chunks = split_documents(loc.docs)]
    /\ pc' = "ix_embed"
    /\ UNCHANGED <<rootExists, cols, LLM_MODEL, op, pre, result>>

\* Mutation of add_documents: chunks already stored are skipped.
add_documents_dedup(stored, chunks) ==
    stored \o SelectSeq(chunks, LAMBDA c : c \notin Range(stored))

\* vectorstore.add_documents(chunks) on the loaded store
add_documents(stored, chunks) == stored \o chunks

\* Mutation of index_embed_raise: the directory is created before embedding.
index_embed_raise_after_mkdir(exc) ==
    /\ pc' = "idle"
    /\ result' = Raised(exc)
    /\ rootExists' = TRUE
    /\ cols' = [cols EXCEPT ![loc.collection].exists = TRUE]
    /\ UNCHANGED loc

\* an exception leaves index() from the embedding statements
index_embed_raise(exc) ==
    /\ pc' = "idle"
    /\ result' = Raised(exc)
    /\ UNCHANGED <<rootExists, cols, loc>>

\* FAISS.load_local + add_documents when the directory exists, else
\* FAISS.from_documents; service_ok is whether the embedding service answers.
index_embed(service_ok) ==
    /\ pc = "ix_embed"
    /\ IF DirExists(loc.collection)
       THEN IF ~cols[loc.collection].index.has
            THEN index_embed_raise("IndexLoadError")
            ELSE IF ~service_ok
            THEN index_embed_raise("EmbeddingServiceUnavailable")
            ELSE /\ loc' = [loc EXCEPT !.vectorstore =
                               add_documents(cols[loc.collection].index.docs, loc.chunks)]
                 /\ pc' = "ix_mkdir"
                 /\ UNCHANGED <<rootExists, cols, result>>
       ELSE IF ~service_ok
            THEN index_embed_raise("EmbeddingServiceUnavailable")
            ELSE /\ loc' = [loc EXCEPT !.vectorstore = loc.chunks]
                 /\ pc' = "ix_mkdir"
                 /\ UNCHANGED <<rootExists, cols, result>>
    /\ UNCHANGED <<LLM_MODEL, op, pre>>

\* collection_dir.mkdir(parents=True, exist_ok=True)
index_mkdir ==
    /\ pc = "ix_mkdir"
    /\ rootExists' = TRUE
    /\ cols' = [cols EXCEPT ![loc.collection].exists = TRUE]
    /\ pc' = "ix_save"
    /\ UNCHANGED <<LLM_MODEL, op, loc, pre, result>>

\* vectorstore.save_local(collection_dir)
index_save ==
    /\ pc = "ix_save"
    /\ cols' = [cols EXCEPT ![loc.collection].index =
                   [has |-> TRUE, docs |-> loc.vectorstore]]
    /\ pc' = "ix_meta"
    /\ UNCHANGED <<rootExists, LLM_MODEL, op, loc, pre, result>>

\* Mutation of MetaRecord: the count written is this call's len(chunks).
MetaRecord_call_count(vectorstore, chunks) ==
    [has |-> TRUE,
     chunks |-> Len(chunks),
     sources |-> SortedSeq({PathName(chunks[i].source) : i \in 1..Len(chunks)})]

\* the meta dict: total = vectorstore.index.ntotal, sources from this call's chunks
MetaRecord(vectorstore, chunks) ==
    [has |-> TRUE,
     chunks |-> Len(vectorstore),
     sources |-> SortedSeq({PathName(chunks[i].source) : i \in 1..Len(chunks)})]

\* write meta.json, print, return len(chunks)
index_meta ==
    /\ pc = "ix_meta"
    /\ cols' = [cols EXCEPT ![loc.collection].meta = MetaRecord(loc.vectorstore, loc.chunks)]
    /\ pc' = "idle"
    /\ result' = Returned(Len(loc.chunks))
    /\ UNCHANGED <<rootExists, LLM_MODEL, op, loc, pre>>

\* Ctrl-C while index() runs: KeyboardInterrupt is raised before the
\* statement at pc and nothing in index() catches it.
index_interrupt ==
    /\ pc \in IndexPcs
    /\ pc' = "idle"
    /\ loc' = [loc EXCEPT !.interrupted = pc]
    /\ result' = Raised("KeyboardInterrupt")
    /\ UNCHANGED <<rootExists, cols, LLM_MODEL, op, pre>>

\* ---------------------------------------------------------------- list
\* The subdirectories `list` and `clear` treat as collections, sorted by name.
collection_dirs ==
    SortedSeq({d \in DirNames : cols[d].exists /\ cols[d].index.has})

\* What `list` prints: nothing when the root is missing, else one line per
\* collection, with the chunk count and sources of meta.json when it exists.
Listing ==
    IF ~rootExists THEN <<>>
    ELSE [i \in 1..Len(collection_dirs) |->
            LET d == collection_dirs[i] IN
            [name |-> d,
             has_meta |-> cols[d].meta.has,
             chunks |-> cols[d].meta.chunks,
             sources |-> cols[d].meta.sources]]

list_collections ==
    /\ pc = "idle"
    /\ op' = "list"
    /\ pre' = Snapshot
    /\ loc' = FreshLoc
    /\ result' = [NoResult EXCEPT !.kind = "return", !.listing = Listing]
    /\ UNCHANGED <<rootExists, cols, LLM_MODEL, pc>>

\* ---------------------------------------------------------------- clear
\* Mutation of delete_all_confirmed: the answer is ignored.
delete_all_unconditional(confirmed) == TRUE

\* `if confirmed:` after typer.confirm
delete_all_confirmed(confirmed) == confirmed

\* Mutation of rmtree_index_dir: only the directories named in the prompt go.
rmtree_named_collections ==
    [rootExists |-> TRUE,
     cols |-> [d \in DirNames |->
                 IF cols[d].exists /\ cols[d].index.has THEN AbsentDir ELSE cols[d]]]

\* shutil.rmtree(config.INDEX_DIR): the root and everything under it
rmtree_index_dir ==
    [rootExists |-> FALSE, cols |-> [d \in DirNames |-> AbsentDir]]

\* main.clear; confirmed is the user's answer to typer.confirm when it is asked
clear(collection, confirmed) ==
    /\ pc = "idle"
    /\ op' = "clear"
    /\ pre' = Snapshot
    /\ UNCHANGED <<LLM_MODEL, pc>>
    /\ IF ~rootExists
       THEN /\ loc' = [FreshLoc EXCEPT !.collection = collection]
            /\ result' = Returned(0)
            /\ UNCHANGED <<rootExists, cols>>
       ELSE IF collection # None
       THEN /\ loc' = [FreshLoc EXCEPT !.collection = collection]
            /\ IF ~cols[collection].exists
               THEN result' = Exited(1) /\ UNCHANGED <<rootExists, cols>>
               ELSE /\ cols' = [cols EXCEPT ![collection] = AbsentDir]
                    /\ result' = Returned(0)
                    /\ UNCHANGED rootExists
       ELSE IF collection_dirs = <<>>
       THEN /\ loc' = [FreshLoc EXCEPT !.collection = collection]
            /\ result' = Returned(0)
            /\ UNCHANGED <<rootExists, cols>>
       ELSE /\ loc' = [FreshLoc EXCEPT !.collection = collection, !.asked = TRUE,
                                       !.confirmed = confirmed]
            /\ result' = Returned(0)
            /\ IF delete_all_confirmed(confirmed)
               THEN /\ rootExists' = rmtree_index_dir.rootExists
                    /\ cols' = rmtree_index_dir.cols
               ELSE UNCHANGED <<rootExists, cols>>

\* ---------------------------------------------------------------- chain.py
\* _build_chain: "ok", or the exception it raises.  FAISS.load_local raises
\* when the directory holds no index.
build_chain(c) ==
    IF ~DirExists(c) THEN "FileNotFoundError"
    ELSE IF ~cols[c].index.has THEN "IndexLoadError"
    ELSE "ok"

\* `collection or config.COLLECTION`
resolve(collection) == IF collection = None THEN COLLECTION ELSE collection

\* ---------------------------------------------------------------- run_silent
\* Mutation of restored_model: the override is left in place.
restored_model_kept(original_model, current) == current

\* the value the finally clause assigns to config.LLM_MODEL
restored_model(original_model, current) == original_model

run_silent_start(collection, model) ==
    /\ pc = "idle"
    /\ op' = "run_silent"
    /\ pre' = Snapshot
    /\ loc' = [FreshLoc EXCEPT !.collection = resolve(collection), !.model = model,
                               !.original_model = LLM_MODEL]
    /\ LLM_MODEL' = IF model # None THEN model ELSE LLM_MODEL
    /\ pc' = "rs_build"
    /\ result' = NoResult
    /\ UNCHANGED <<rootExists, cols>>

run_silent_build ==
    /\ pc = "rs_build"
    /\ IF build_chain(loc.collection) = "ok"
       THEN /\ loc' = [loc EXCEPT !.llm = LLM_MODEL]
            /\ pc' = "rs_invoke"
       ELSE /\ loc' = [loc EXCEPT !.pending = Raised(build_chain(loc.collection))]
            /\ pc' = "rs_finally"
    /\ UNCHANGED <<rootExists, cols, LLM_MODEL, op, pre, result>>

\* time.perf_counter() differences the model draws, in milliseconds
ElapsedMs == {4, 1236}

\* chain.invoke(question): the answer of the model the chain was built with,
\* or the model call raises
run_silent_invoke(ok) ==
    /\ pc = "rs_invoke"
    /\ \E ms \in ElapsedMs :
          loc' = [loc EXCEPT !.pending = IF ok THEN ReturnedText(<<loc.llm>>)
                                         ELSE Raised("GenerationError"),
                             !.elapsed = IF ok THEN ms ELSE 0]
    /\ pc' = "rs_finally"
    /\ UNCHANGED <<rootExists, cols, LLM_MODEL, op, pre, result>>

run_silent_interrupt ==
    /\ pc \in {"rs_build", "rs_invoke"}
    /\ loc' = [loc EXCEPT !.pending = Raised("KeyboardInterrupt"), !.interrupted = pc]
    /\ pc' = "rs_finally"
    /\ UNCHANGED <<rootExists, cols, LLM_MODEL, op, pre, result>>

\* the finally clause, then the return or the re-raise, to the shell or to
\* compare's loop
run_silent_finally ==
    /\ pc = "rs_finally"
    /\ LLM_MODEL' = restored_model(loc.original_model, LLM_MODEL)
    /\ IF loc.mode = "compare"
       THEN pc' = "cmp_record" /\ UNCHANGED result
       ELSE pc' = "idle" /\ result' = loc.pending
    /\ UNCHANGED <<rootExists, cols, op, loc, pre>>

\* ---------------------------------------------------------------- compare
\* [x.strip() for x in items if x.strip()]: blank items are dropped
strip_nonempty(items) == SelectSeq(items, LAMBDA x : x # "")

\* --models values and question arguments of the modelled runs: a question
\* given as text, or a file of lines
ModelArgs == {<<"mistral">>, <<"llama3.2", "", "mistral">>, <<"">>}
QuestionArgs ==
    {[kind |-> "text", lines |-> <<"q1">>],
     [kind |-> "file", lines |-> <<"q1", "", "q2">>]}

\* round(elapsed, 2), in hundredths of a second
round2(ms) == (ms + 5) \div 10

\* main.compare up to the loops
compare_start(question_or_file, models, collection) ==
    /\ pc = "idle"
    /\ op' = "compare"
    /\ pre' = Snapshot
    /\ IF strip_nonempty(models) = <<>>
       THEN /\ loc' = FreshLoc
            /\ pc' = "idle"
            /\ result' = Exited(1)
       ELSE /\ loc' = [FreshLoc EXCEPT
                         !.mode = "compare",
                         !.model_list = strip_nonempty(models),
                         !.questions = IF question_or_file.kind = "file"
                                       THEN strip_nonempty(question_or_file.lines)
                                       ELSE question_or_file.lines,
                         !.collection = resolve(collection)]
            /\ pc' = "cmp_loop"
            /\ result' = NoResult
    /\ UNCHANGED <<rootExists, cols, LLM_MODEL>>

\* the head of the nested loops: the next (question, model) pair enters
\* run_silent with the model as override, or the loops are over
compare_loop ==
    /\ pc = "cmp_loop"
    /\ IF loc.qi > Len(loc.questions)
       THEN /\ pc' = "idle"
            /\ result' = Returned(Len(loc.results))
            /\ UNCHANGED <<loc, LLM_MODEL>>
       ELSE /\ loc' = [loc EXCEPT !.model = loc.model_list[loc.mi],
                                  !.original_model = LLM_MODEL,
                                  !.llm = None, !.pending = NoResult,
                                  !.interrupted = "no", !.elapsed = 0]
            /\ LLM_MODEL' = loc.model_list[loc.mi]
            /\ pc' = "rs_build"
            /\ UNCHANGED result
    /\ UNCHANGED <<rootExists, cols, op, pre>>

\* Mutation of compare_record: an invocation that raises ends the command.
compare_record_abort ==
    /\ pc = "cmp_record"
    /\ IF loc.pending.kind = "raise"
       THEN pc' = "idle" /\ result' = loc.pending /\ UNCHANGED loc
       ELSE /\ loc' = [loc EXCEPT
                         !.results = Append(@, [question |-> loc.questions[loc.qi],
                                                model |-> loc.model_list[loc.mi],
                                                answer |-> loc.pending.text,
                                                latency_s |-> round2(loc.elapsed)]),
                         !.mi = IF loc.mi = Len(loc.model_list) THEN 1 ELSE loc.mi + 1,
                         !.qi = IF loc.mi = Len(loc.model_list) THEN loc.qi + 1 ELSE loc.qi]
            /\ pc' = "cmp_loop"
            /\ UNCHANGED result
    /\ UNCHANGED <<rootExists, cols, LLM_MODEL, op, pre>>

\* run_silent is back: `except Exception` turns an exception into an error
\* answer with latency 0 (a KeyboardInterrupt is no Exception and ends the
\* command), then the record is appended and the loops advance
compare_record ==
    /\ pc = "cmp_record"
    /\ IF loc.pending.kind = "raise" /\ loc.pending.exc = "KeyboardInterrupt"
       THEN pc' = "idle" /\ result' = loc.pending /\ UNCHANGED loc
       ELSE /\ loc' = [loc EXCEPT
                         !.results = Append(@,
                            [question |-> loc.questions[loc.qi],
                             model |-> loc.model_list[loc.mi],
                             answer |-> IF loc.pending.kind = "raise"
                                        THEN <<"ERROR", loc.pending.exc>>
                                        ELSE loc.pending.text,
                             latency_s |-> IF loc.pending.kind = "raise" THEN 0
                                           ELSE round2(loc.elapsed)]),
                         !.mi = IF loc.mi = Len(loc.model_list) THEN 1 ELSE loc.mi + 1,
                         !.qi = IF loc.mi = Len(loc.model_list) THEN loc.qi + 1 ELSE loc.qi]
            /\ pc' = "cmp_loop"
            /\ UNCHANGED result
    /\ UNCHANGED <<rootExists, cols, LLM_MODEL, op, pre>>

\* ---------------------------------------------------------------- query
\* main.query up to the call of chain.query (one-shot) or the REPL prompt
query_start(mode, collection, sources, model) ==
    /\ pc = "idle"
    /\ op' = "query"
    /\ pre' = Snapshot
    /\ LLM_MODEL' = IF model # None THEN model ELSE LLM_MODEL
    /\ loc' = [FreshLoc EXCEPT !.mode = mode, !.collection = collection,
                               !.show_sources = sources, !.model = model]
    /\ pc' = IF mode = "oneshot" THEN "q_build" ELSE "repl_prompt"
    /\ result' = NoResult
    /\ UNCHANGED <<rootExists, cols>>

\* the REPL's console.input and the tests on the line read
repl_input(line) ==
    /\ pc = "repl_prompt"
    /\ CASE line \in {"KeyboardInterrupt", "EOFError", "exit"} ->
              /\ pc' = "idle"
              /\ result' = Returned(0)
              /\ UNCHANGED loc
         [] line = "" ->
              UNCHANGED <<pc, result, loc>>
         [] OTHER ->
              /\ pc' = "q_build"
              /\ loc' = [loc EXCEPT !.full_response = <<>>, !.stdout = <<>>,
                                    !.pending = NoResult, !.interrupted = "no",
                                    !.llm = None]
              /\ UNCHANGED result
    /\ UNCHANGED <<rootExists, cols, LLM_MODEL, op, pre>>

\* chain.query() ends with outcome r (a return value or an exception) and
\* control is back in main.query: an exception is caught nowhere and ends
\* the command; a one-shot query ends; the REPL prompts again.  Saving and
\* speaking the answer touch neither the store nor config.LLM_MODEL.
query_return(newloc, r) ==
    /\ loc' = [newloc EXCEPT !.pending = r]
    /\ IF r.kind = "raise" \/ newloc.mode = "oneshot"
       THEN pc' = "idle" /\ result' = r
       ELSE pc' = "repl_prompt" /\ UNCHANGED result

query_build ==
    /\ pc = "q_build"
    /\ LET b == build_chain(resolve(loc.collection)) IN
       CASE b = "ok" ->
              /\ loc' = [loc EXCEPT !.llm = LLM_MODEL]
              /\ pc' = "q_stream"
              /\ UNCHANGED result
         [] b = "FileNotFoundError" ->
              query_return([loc EXCEPT !.stdout = <<[kind |-> "error", n |-> 0]>>],
                           ReturnedText(<<>>))
         [] OTHER ->
              query_return(loc, Raised(b))
    /\ UNCHANGED <<rootExists, cols, LLM_MODEL, op, pre>>

\* one iteration of `for chunk in chain.stream(question)`
query_stream_fragment ==
    /\ pc = "q_stream"
    /\ Len(loc.full_response) < MaxFrags
    /\ LET n == Len(loc.full_response) + 1 IN
       loc' = [loc EXCEPT !.full_response = Append(@, n),
                          !.stdout = Append(@, [kind |-> "fragment", n |-> n])]
    /\ UNCHANGED <<rootExists, cols, LLM_MODEL, pc, op, pre, result>>

\* the stream is exhausted: the optional sources listing (the retriever may
\* raise), then `return full_response`
query_stream_end(retrieval_ok) ==
    /\ pc = "q_stream"
    /\ IF loc.show_sources /\ ~retrieval_ok
       THEN query_return(loc, Raised("EmbeddingServiceUnavailable"))
       ELSE query_return(loc, ReturnedText(loc.full_response))
    /\ UNCHANGED <<rootExists, cols, LLM_MODEL, op, pre>>

\* Mutation of query_stream_raise: the handler returns an empty answer.
query_stream_raise_empty ==
    /\ pc = "q_stream"
    /\ query_return([loc EXCEPT !.stdout = Append(@, [kind |-> "error", n |-> 0])],
                    ReturnedText(<<>>))
    /\ UNCHANGED <<rootExists, cols, LLM_MODEL, op, pre>>

\* `except Exception`: the model call raises mid-stream
query_stream_raise ==
    /\ pc = "q_stream"
    /\ query_return([loc EXCEPT !.stdout = Append(@, [kind |-> "error", n |-> 0])],
                    ReturnedText(loc.full_response))
    /\ UNCHANGED <<rootExists, cols, LLM_MODEL, op, pre>>

\* Ctrl-C inside chain.query(): KeyboardInterrupt is no Exception, so neither
\* except clause of query() catches it
query_interrupt ==
    /\ pc \in {"q_build", "q_stream"}
    /\ query_return([loc EXCEPT !.interrupted = pc], Raised("KeyboardInterrupt"))
    /\ UNCHANGED <<rootExists, cols, LLM_MODEL, op, pre>>

\* ---------------------------------------------------------------- claims
\* A finished call of the named operation.
Finished(o) == op = o /\ pc = "idle"
StoreUnchanged == rootExists = pre.rootExists /\ cols = pre.cols
\* index() ran to its last statement on a non-empty load.
IndexSucceeded == Finished("index") /\ result.kind = "return" /\ loc.docs # <<>>

\* C1: after every call of run_silent, with or without a model override and
\* on every exit path (return, missing collection, index load failure, model
\* call raising, interrupt), config.LLM_MODEL is what it was before the call.
C1_ModelRestored ==
    Finished("run_silent") => LLM_MODEL = pre.LLM_MODEL

\* C1 witness: a call overriding the model with a different one whose model
\* invocation raised.
C1_Witness ==
    /\ Finished("run_silent")
    /\ loc.model # None
    /\ loc.model # pre.LLM_MODEL
    /\ result = Raised("GenerationError")

\* C2: when the embedding service fails during an index call, on the create
\* path or the merge path, the persisted state is what it was before the call.
C2_EmbeddingFailureNoPersistence ==
    (Finished("index") /\ result = Raised("EmbeddingServiceUnavailable"))
        => StoreUnchanged

\* C2 witness: the embedding service failed while merging into a collection
\* that has an index and a meta.json.
C2_Witness ==
    /\ Finished("index")
    /\ result = Raised("EmbeddingServiceUnavailable")
    /\ pre.cols[loc.collection].index.has
    /\ pre.cols[loc.collection].meta.has
    /\ loc.chunks # <<>>

\* What a completed index call persists for its collection.
CompletedPost ==
    [pre.cols EXCEPT ![loc.collection] =
        [exists |-> TRUE,
         index |-> [has |-> TRUE, docs |-> loc.vectorstore],
         meta |-> MetaRecord(loc.vectorstore, loc.chunks)]]

\* C3: an interrupt at any step of an index call leaves the persisted state
\* either entirely the pre-call state or entirely the completed post-call
\* state.
C3_InterruptAllOrNothing ==
    (Finished("index") /\ result = Raised("KeyboardInterrupt"))
        => \/ StoreUnchanged
           \/ rootExists /\ cols = CompletedPost

\* The sorted distinct source filenames of the chunks an index holds.
SourcesOf(docs) == SortedSeq({PathName(docs[i].source) : i \in 1..Len(docs)})

\* C4: after a successful index call, meta.json's sources are the sorted
\* distinct source filenames of all chunks indexed into the collection to
\* date.  Stated as preservation: the call starts from a collection that is
\* new or whose sources were those of all its chunks, and adds chunks.
C4_SourcesCumulative ==
    (/\ IndexSucceeded
     /\ loc.chunks # <<>>
     /\ pre.cols[loc.collection].exists =>
            /\ pre.cols[loc.collection].meta.has
            /\ pre.cols[loc.collection].meta.sources
                 = SourcesOf(pre.cols[loc.collection].index.docs))
        => cols[loc.collection].meta.sources = SourcesOf(cols[loc.collection].index.docs)

\* The entry `list` prints for collection c, if any.
Listed(c) == \E i \in 1..Len(Listing) : Listing[i].name = c
ListedChunks(c) ==
    LET i == CHOOSE i \in 1..Len(Listing) : Listing[i].name = c IN Listing[i].chunks

\* C5 as claimed: after every successful index call, creating or merging, the
\* chunk count `list` reports equals the integer the call returned.
C5_ListCountEqualsReturn ==
    IndexSucceeded =>
        /\ Listed(loc.collection)
        /\ ListedChunks(loc.collection) = result.ret

\* C5 as amended: the chunk count `list` reports after a successful index
\* call is the number of chunks the collection's index held before the call
\* (none when the call creates it) plus the integer the call returned.
C5_ListCountIsPriorPlusReturn ==
    IndexSucceeded =>
        /\ Listed(loc.collection)
        /\ ListedChunks(loc.collection)
             = Len(pre.cols[loc.collection].index.docs) + result.ret

\* C5 witness: a successful merge into a collection that already held chunks.
C5_Witness ==
    /\ IndexSucceeded
    /\ result.ret > 0
    /\ Len(pre.cols[loc.collection].index.docs) > 0
    /\ Listed(loc.collection)

\* C6: indexing into an existing collection appends without deduplication:
\* the stored index is the old one followed by this call's chunks, the stored
\* total is the old total plus the number of chunks of this call, and no
\* index call, finished or not, ever lowers a collection's total.
C6_MergeAppends ==
    /\ (IndexSucceeded /\ pre.rootExists /\ pre.cols[loc.collection].exists) =>
          /\ cols[loc.collection].index.docs
               = pre.cols[loc.collection].index.docs \o loc.chunks
          /\ Len(cols[loc.collection].index.docs)
               = Len(pre.cols[loc.collection].index.docs) + result.ret
          /\ cols[loc.collection].meta.chunks = Len(cols[loc.collection].index.docs)
    /\ op = "index" =>
          \A d \in DirNames : Len(cols[d].index.docs) >= Len(pre.cols[d].index.docs)

\* C6 witness: the same file indexed a second time into its collection.
C6_Witness ==
    /\ IndexSucceeded
    /\ loc.chunks # <<>>
    /\ pre.cols[loc.collection].index.docs = loc.chunks
    /\ cols[loc.collection].meta.chunks = 2 * Len(loc.chunks)

\* load_documents has run in the current or last index call.
Loaded == op = "index" /\ loc.path = NoPath /\ result.kind # "exit"

\* C7: an index call that loads zero document segments returns 0 at once and
\* leaves the persisted state as it was.
C7_NoDocumentsNoOp ==
    (Loaded /\ loc.docs = <<>>) =>
        /\ pc = "idle"
        /\ result = Returned(0)
        /\ StoreUnchanged

\* C7 witness: zero segments loaded for a collection that already exists
\* with an index and a meta.json.
C7_Witness ==
    /\ Loaded
    /\ loc.docs = <<>>
    /\ pc = "idle"
    /\ pre.cols[loc.collection].index.has
    /\ pre.cols[loc.collection].meta.has

\* C8: `clear --collection X` for an X whose directory does not exist, in
\* every state of the storage root, exits with code 1 and leaves every other
\* collection untouched.
C8_ClearMissingFails ==
    (/\ Finished("clear")
     /\ loc.collection # None
     /\ ~(pre.rootExists /\ pre.cols[loc.collection].exists))
        => /\ result = Exited(1)
           /\ \A d \in DirNames \ {loc.collection} : cols[d] = pre.cols[d]

\* C9: `clear` without a collection name changes the persisted state only
\* after the confirmation was asked and answered yes; declined, or with
\* nothing to clear, the storage root and every collection are unchanged.
C9_DeleteAllNeedsConfirmation ==
    (Finished("clear") /\ loc.collection = None) =>
        /\ ~(loc.asked /\ loc.confirmed) => StoreUnchanged
        /\ (\A d \in DirNames : ~pre.cols[d].index.has) => (~loc.asked /\ StoreUnchanged)

\* C9 witness: collections exist, the confirmation was asked and declined.
C9_Witness ==
    /\ Finished("clear")
    /\ loc.collection = None
    /\ loc.asked
    /\ ~loc.confirmed
    /\ \E d \in DirNames : cols[d].index.has

\* C10: a keyboard interrupt while query() consumes the stream makes query()
\* return the text accumulated so far, and does not reach the top level.
C10_InterruptReturnsPartial ==
    (op = "query" /\ loc.interrupted = "q_stream") =>
        /\ loc.pending = ReturnedText(loc.full_response)
        /\ result.kind # "raise"

\* The model call raised while query() was consuming the stream: the chain
\* was built and the last thing printed is the error.
GenerationFailed ==
    /\ op = "query"
    /\ loc.llm # None
    /\ loc.stdout # <<>>
    /\ loc.stdout[Len(loc.stdout)].kind = "error"

\* The fragments 1..n as query() prints them, in order.
Emitted(n) == [i \in 1..n |-> [kind |-> "fragment", n |-> i]]

\* One step of the query state machine: Retrieving (q_build) is entered from
\* Idle (the shell or the REPL prompt) only, Generating (q_stream) from
\* Retrieving only, both end in Idle (Done or Failed), and while generating
\* nothing already printed is retracted.
QueryStep ==
    /\ pc' = "q_build" => pc \in {"idle", "repl_prompt", "q_build"}
    /\ pc' = "q_stream" => pc \in {"q_build", "q_stream"}
    /\ pc = "q_build" => pc' \in {"q_build", "q_stream", "idle", "repl_prompt"}
    /\ pc = "q_stream" =>
          /\ pc' \in {"q_stream", "idle", "repl_prompt"}
          /\ Len(loc'.stdout) >= Len(loc.stdout)
          /\ SubSeq(loc'.stdout, 1, Len(loc.stdout)) = loc.stdout

\* C11: a query moves Idle -> Retrieving -> Generating -> Done or Failed, and
\* when the model call raises after n fragments, the n fragments were printed
\* in order and stay printed, the error is printed after them, and query()
\* returns exactly those n fragments.
C11_PartialAnswerKept ==
    /\ [][QueryStep]_vars
    /\ [](GenerationFailed =>
            LET n == Len(loc.full_response) IN
            /\ loc.full_response = [i \in 1..n |-> i]
            /\ loc.stdout = Emitted(n) \o <<[kind |-> "error", n |-> 0]>>
            /\ loc.pending = ReturnedText(loc.full_response)
            /\ result.kind # "raise")

\* C11 witness: the model call raised after two fragments were streamed.
C11_Witness ==
    /\ GenerationFailed
    /\ Len(loc.full_response) >= 2
    /\ loc.pending.kind = "return"

\* _build_chain failed in the current or last call of query(): no chain was
\* built, query() has ended, and no interrupt ended it.
BuildFailed ==
    /\ op = "query"
    /\ loc.llm = None
    /\ loc.pending.kind # "none"
    /\ loc.interrupted = "no"

\* C12: whenever the index of the requested collection cannot be loaded (the
\* directory is absent, or present without a loadable index), query() returns
\* an empty result and raises nothing, so the command does not crash.
C12_UnloadableIndexReturnsEmpty ==
    BuildFailed =>
        /\ loc.pending = ReturnedText(<<>>)
        /\ result.kind # "raise"

\* compare got past its argument checks and is running or has ended.
Comparing == op = "compare" /\ loc.mode = "compare"

\* The k-th (question, model) pair in question-major order.
PairQuestion(k) == loc.questions[((k - 1) \div Len(loc.model_list)) + 1]
PairModel(k) == loc.model_list[((k - 1) % Len(loc.model_list)) + 1]

\* C13: compare invokes the models one at a time in question-major order and
\* produces one record per (question, model) pair in that order, |Q| x |M| in
\* all, each with a non-negative latency; an invocation that raises becomes
\* its own record (error text, latency 0) and neither ends the command nor
\* skips another pair; the record of an invocation that returns carries the
\* answer of the record's own model.
C13_CompareRecords ==
    Comparing =>
        /\ Len(loc.results) <= Len(loc.questions) * Len(loc.model_list)
        /\ \A k \in 1..Len(loc.results) :
              /\ loc.results[k].question = PairQuestion(k)
              /\ loc.results[k].model = PairModel(k)
              /\ loc.results[k].latency_s >= 0
              /\ \/ loc.results[k].answer = <<PairModel(k)>>
                 \/ /\ Len(loc.results[k].answer) = 2
                    /\ loc.results[k].answer[1] = "ERROR"
                    /\ loc.results[k].latency_s = 0
        /\ pc \in {"rs_build", "rs_invoke", "rs_finally", "cmp_record"} =>
              /\ Len(loc.results) < Len(loc.questions) * Len(loc.model_list)
              /\ loc.model = PairModel(Len(loc.results) + 1)
        /\ (pc = "idle" /\ result.kind = "return") =>
              Len(loc.results) = Len(loc.questions) * Len(loc.model_list)
        /\ (pc = "idle" /\ result.kind = "raise") => result.exc = "KeyboardInterrupt"

\* C13 witness: two questions against two models ended with four records, the
\* first of them an error record and the last an answer with a latency.
C13_Witness ==
    /\ Comparing
    /\ pc = "idle"
    /\ result.kind = "return"
    /\ Len(loc.questions) = 2
    /\ Len(loc.model_list) = 2
    /\ Len(loc.results) = 4
    /\ loc.results[1].answer[1] = "ERROR"
    /\ loc.results[4].answer = <<loc.model_list[2]>>
    /\ loc.results[4].latency_s > 0

\* A delete-all that was asked and confirmed.
DeleteAllConfirmed ==
    Finished("clear") /\ loc.collection = None /\ loc.asked /\ loc.confirmed
\* d was named in the confirmation prompt.
WasNamed(d) == pre.cols[d].exists /\ pre.cols[d].index.has

\* C14 as claimed: a confirmed delete-all removes exactly the collections
\* named in the prompt; a subdirectory of the root without an index file is
\* left in place.
C14_DeleteAllOnlyNamed ==
    DeleteAllConfirmed =>
        \A d \in DirNames :
            IF WasNamed(d) THEN ~cols[d].exists
            ELSE cols[d] = pre.cols[d]

\* C14 as amended: a confirmed delete-all removes the storage root itself and
\* with it every subdirectory, named in the prompt or not.
C14_DeleteAllRemovesRoot ==
    DeleteAllConfirmed =>
        /\ ~rootExists
        /\ \A d \in DirNames : cols[d] = AbsentDir

\* C14 witness: the confirmed delete-all ran on a root holding a collection
\* and a subdirectory without an index file.
C14_Witness ==
    /\ DeleteAllConfirmed
    /\ \E d \in DirNames : WasNamed(d)
    /\ \E d \in DirNames : pre.cols[d].exists /\ ~pre.cols[d].index.has

\* ---------------------------------------------------------------- specifications
\* The store's life: index, list and clear commands run one after another
\* from an empty working directory.
Next ==
    \/ \E path \in Paths, c \in DirNames \cup {None} : index_start(path, c)
    \/ index_load
    \/ index_split
    \/ \E ok \in BOOLEAN : index_embed(ok)
    \/ index_mkdir
    \/ index_save
    \/ index_meta
    \/ index_interrupt
    \/ list_collections
    \/ \E c \in DirNames \cup {None}, confirmed \in BOOLEAN : clear(c, confirmed)

Spec == Init /\ [][Next]_vars

\* The query side reads the store and never writes it.  It is explored from
\* the stores the index command can leave a directory in: absent, created
\* but without an index (index interrupted after mkdir), and indexed.
IndexedDir ==
    LET chunks == split_documents(load_documents([kind |-> "file", files |-> {"docs/a.txt"}]))
    IN [exists |-> TRUE,
        index |-> [has |-> TRUE, docs |-> chunks],
        meta |-> MetaRecord(chunks, chunks)]
EmptyDir == [exists |-> TRUE, index |-> NoIndex, meta |-> NoMeta]

ChainInit ==
    /\ cols \in [DirNames -> {AbsentDir, EmptyDir, IndexedDir}]
    /\ rootExists \in BOOLEAN
    /\ (\E d \in DirNames : cols[d].exists) => rootExists
    /\ LLM_MODEL \in Models
    /\ pc = "idle"
    /\ op = "none"
    /\ loc = FreshLoc
    /\ pre = Snapshot
    /\ result = NoResult

ChainNext ==
    \/ \E c \in DirNames \cup {None}, m \in Models \cup {None} : run_silent_start(c, m)
    \/ run_silent_build
    \/ \E ok \in BOOLEAN : run_silent_invoke(ok)
    \/ run_silent_interrupt
    \/ run_silent_finally
    \/ \E q \in QuestionArgs, ms \in ModelArgs, c \in DirNames \cup {None} :
            compare_start(q, ms, c)
    \/ compare_loop
    \/ compare_record
    \/ \E mode \in {"oneshot", "repl"}, c \in DirNames \cup {None},
          sources \in BOOLEAN, m \in Models \cup {None} :
            query_start(mode, c, sources, m)
    \/ \E line \in {"KeyboardInterrupt", "EOFError", "exit", "", "question"} :
            repl_input(line)
    \/ query_build
    \/ query_stream_fragment
    \/ \E ok \in BOOLEAN : query_stream_end(ok)
    \/ query_stream_raise
    \/ query_interrupt

ChainSpec == ChainInit /\ [][ChainNext]_vars

====
